---- MODULE Spec2Model ----
(***************************************************************************)
(* State-machine model of the auction canister in                          *)
(* src/src/auction_dapp_backend/src/lib.rs: the item map, the id counter   *)
(* and the five update calls listItem, editItem, stopListing, deleteItem   *)
(* and bidForAnItem, each taken as one atomic step (a canister runs one    *)
(* message to completion before the next).  call and ret hold the update   *)
(* call that has just run and its reply until the reply is delivered; the  *)
(* next call is taken up after that.                                       *)
(*                                                                         *)
(* Option<T> values are modelled as sets with at most one element:         *)
(* None is {} and Some(x) is {x}.  Result<String, String> is a record      *)
(* with a tag ("Ok" or "Err") and the text of the message.                 *)
(***************************************************************************)
EXTENDS Integers, Sequences, FiniteSets, TLC

VARIABLES ITEM_MAP, ID_COUNTER, call, ret, issued

vars == <<ITEM_MAP, ID_COUNTER, call, ret, issued>>

(***************************************************************************)
(* The bound of the model and the inputs the calls are drawn from.         *)
(***************************************************************************)
\* listItem is enabled while ID_COUNTER < MaxItems (ids 0 .. MaxItems-1).
MaxItems == 2

\* The width of the id counter in the model: the u64 of the source, scaled down.
\* MaxItems is below 2^IdBits, so the counter does not wrap under Spec.
IdBits == 2

IdModulus == 2 ^ IdBits

Principals == {"A", "B"}

\* Keys passed to the calls: every id that can be allocated and one that is not.
Keys == 0..MaxItems

\* The ItemBase arguments of listItem and editItem.
ItemBases ==
    { [description |-> "x", result_date |-> 10, is_active |-> TRUE,  latest_update |-> 1],
      [description |-> "y", result_date |-> 20, is_active |-> FALSE, latest_update |-> 2] }

\* The BidBase arguments of bidForAnItem.
BidBases ==
    { [bid_amount |-> 0,   bid_date |-> 5],
      [bid_amount |-> 100, bid_date |-> 5],
      [bid_amount |-> 150, bid_date |-> 6] }

(***************************************************************************)
(* Values returned to the caller.                                          *)
(***************************************************************************)
Ok(text) == [tag |-> "Ok", text |-> text, item |-> {}]

Err(text) == [tag |-> "Err", text |-> text, item |-> {}]

\* An Option<Item> handed back as the reply of listItem.
OptionItem(o) == [tag |-> IF o = {} THEN "None" ELSE "Some", text |-> "", item |-> o]

\* No call is being answered.
NoCall == [op |-> "idle", caller |-> "", key |-> {}]

NoRet == [tag |-> "idle", text |-> "", item |-> {}]

\* The texts of the error messages, as written in the source.
EditNotFoundText == "Item could not be edited. Most probably, could not be found"

EditUnauthorizedText == "Item could not be edited. Most probably, could not be found"

EditOkText == "Item edited successfully"

StopUnauthorizedText == "You are not authorized to edit this item."

StopNotFoundText == "Item could not be edited. Most probably, could not be found."

StopOkText == "Selected item  is no longer actively listed on the auction list."

DeleteUnauthorizedText(owner) ==
    "You are not authorized to remove this item. The owner is: " \o owner

DeleteOkText(id) == "Item with id " \o ToString(id) \o " removed successfully"

DeleteNotFoundText == "Item could not be found."

BidSelfText == "You cannot bid for you own item"

BidInactiveText == "The selected item is not actively listed."

BidTooLowText == "Your bid cannot be lower than the current highest bid."

BidOkText(id) == "Successfully bidded for item " \o ToString(id)

BidNotFoundText == "Item could not be found."

(***************************************************************************)
(* The stable map: get, insert (returns the previous value) and remove.    *)
(***************************************************************************)
EmptyMap == [k \in {} |-> {}]

map_get(map, key) == IF key \in DOMAIN map THEN {map[key]} ELSE {}

map_insert(map, key, value) ==
    [k \in (DOMAIN map) \cup {key} |-> IF k = key THEN value ELSE map[k]]

\* A faulty variant of map_remove: the whole map is cleared.
map_remove_clears(map, key) == [k \in {} |-> map[k]]

map_remove(map, key) == [k \in (DOMAIN map) \ {key} |-> map[k]]

\* getItem: the stored item, or None.
get_item(key) == map_get(ITEM_MAP, key)

\* getAllItems: a copy of the whole map, always Some.
get_all_items == {ITEM_MAP}

(***************************************************************************)
(* The id allocator: returns the counter and stores the counter plus one,  *)
(* in the unsigned arithmetic of the counter's width.                      *)
(***************************************************************************)
\* A faulty variant of get_and_inc_current_id: the counter is not advanced.
get_and_inc_current_id_noinc(counter) == [id_tmp |-> counter, next |-> counter]

get_and_inc_current_id(counter) ==
    [id_tmp |-> counter, next |-> (counter + 1) % IdModulus]

(***************************************************************************)
(* listItem                                                                *)
(***************************************************************************)
\* A faulty variant of new_listing: the item is always created active.
new_listing_always_active(c, id_tmp, item) ==
    [ item_owner    |-> c,
      id            |-> id_tmp,
      description   |-> item.description,
      highest_bid   |-> 0,
      latest_update |-> item.latest_update,
      result_date   |-> item.result_date,
      bid_vector    |-> <<>>,
      is_active     |-> TRUE ]

\* A faulty variant of new_listing: the id is the counter after the increment.
new_listing_next_id(c, id_tmp, item) ==
    [ item_owner    |-> c,
      id            |-> id_tmp + 1,
      description   |-> item.description,
      highest_bid   |-> 0,
      latest_update |-> item.latest_update,
      result_date   |-> item.result_date,
      bid_vector    |-> <<>>,
      is_active     |-> item.is_active ]

new_listing(c, id_tmp, item) ==
    [ item_owner    |-> c,
      id            |-> id_tmp,
      description   |-> item.description,
      highest_bid   |-> 0,
      latest_update |-> item.latest_update,
      result_date   |-> item.result_date,
      bid_vector    |-> <<>>,
      is_active     |-> item.is_active ]

list_item(c, item) ==
    /\ call = NoCall
    /\ ID_COUNTER < MaxItems
    /\ LET a        == get_and_inc_current_id(ID_COUNTER)
           new_item == new_listing(c, a.id_tmp, item)
       IN  /\ ID_COUNTER' = a.next
           /\ ITEM_MAP' = map_insert(ITEM_MAP, a.id_tmp, new_item)
           /\ ret' = OptionItem(map_get(ITEM_MAP, a.id_tmp))
           /\ issued' = Append(issued, a.id_tmp)
    /\ call' = [op |-> "listItem", caller |-> c, key |-> {}]

(***************************************************************************)
(* editItem and stopListing: a scan of the map in key order that stops at  *)
(* the entry whose key is the one asked for, changes a copy of it and      *)
(* notes whether the caller owns it; the copy is written back afterwards.  *)
(***************************************************************************)
MinKey(S) == CHOOSE k \in S : \A j \in S : k <= j

\* A faulty variant of edit_copy: result_date is not taken over.
edit_copy_keeps_date(v, new_item) ==
    [v EXCEPT !.description   = new_item.description,
              !.is_active     = new_item.is_active,
              !.latest_update = new_item.latest_update]

edit_copy(v, new_item) ==
    [v EXCEPT !.description   = new_item.description,
              !.result_date   = new_item.result_date,
              !.is_active     = new_item.is_active,
              !.latest_update = new_item.latest_update]

RECURSIVE edit_scan(_, _, _, _, _)
edit_scan(map, rest, c, key, new_item) ==
    IF rest = {} THEN [ret_item |-> {}, is_authorized |-> TRUE]
    ELSE LET k == MinKey(rest)
             v == map[k]
         IN  IF k = key
             THEN [ret_item |-> {edit_copy(v, new_item)},
                   is_authorized |-> ~(v.item_owner # c)]
             ELSE edit_scan(map, rest \ {k}, c, key, new_item)

\* A faulty variant of edit_commit: the copy is written back before the ownership test.
edit_commit_unchecked(map, key, s) ==
    IF s.ret_item # {}
    THEN [map |-> map_insert(map, key, CHOOSE v \in s.ret_item : TRUE),
          ret |-> IF s.is_authorized THEN Ok(EditOkText) ELSE Err(EditUnauthorizedText)]
    ELSE [map |-> map, ret |-> Err(EditNotFoundText)]

edit_commit(map, key, s) ==
    IF ~s.is_authorized
    THEN [map |-> map, ret |-> Err(EditUnauthorizedText)]
    ELSE IF s.ret_item # {}
         THEN [map |-> map_insert(map, key, CHOOSE v \in s.ret_item : TRUE),
               ret |-> Ok(EditOkText)]
         ELSE [map |-> map, ret |-> Err(EditNotFoundText)]

edit_item(c, key, new_item) ==
    /\ call = NoCall
    /\ LET s == edit_scan(ITEM_MAP, DOMAIN ITEM_MAP, c, key, new_item)
           r == edit_commit(ITEM_MAP, key, s)
       IN  /\ ITEM_MAP' = r.map
           /\ ret' = r.ret
    /\ call' = [op |-> "editItem", caller |-> c, key |-> {key}]
    /\ UNCHANGED <<ID_COUNTER, issued>>

\* A faulty variant of stop_copy: is_active is flipped.
stop_copy_flips(v) == [v EXCEPT !.is_active = ~v.is_active]

stop_copy(v) == [v EXCEPT !.is_active = FALSE]

RECURSIVE stop_scan(_, _, _, _)
stop_scan(map, rest, c, key) ==
    IF rest = {} THEN [ret_item |-> {}, is_authorized |-> TRUE]
    ELSE LET k == MinKey(rest)
             v == map[k]
         IN  IF k = key
             THEN [ret_item |-> {stop_copy(v)},
                   is_authorized |-> ~(v.item_owner # c)]
             ELSE stop_scan(map, rest \ {k}, c, key)

\* A faulty variant of stop_commit: the copy is written back before the ownership test.
stop_commit_unchecked(map, key, s) ==
    IF s.ret_item # {}
    THEN [map |-> map_insert(map, key, CHOOSE v \in s.ret_item : TRUE),
          ret |-> IF s.is_authorized THEN Ok(StopOkText) ELSE Err(StopUnauthorizedText)]
    ELSE [map |-> map, ret |-> Err(StopNotFoundText)]

stop_commit(map, key, s) ==
    IF ~s.is_authorized
    THEN [map |-> map, ret |-> Err(StopUnauthorizedText)]
    ELSE IF s.ret_item # {}
         THEN [map |-> map_insert(map, key, CHOOSE v \in s.ret_item : TRUE),
               ret |-> Ok(StopOkText)]
         ELSE [map |-> map, ret |-> Err(StopNotFoundText)]

stop_listing(c, key) ==
    /\ call = NoCall
    /\ LET s == stop_scan(ITEM_MAP, DOMAIN ITEM_MAP, c, key)
           r == stop_commit(ITEM_MAP, key, s)
       IN  /\ ITEM_MAP' = r.map
           /\ ret' = r.ret
    /\ call' = [op |-> "stopListing", caller |-> c, key |-> {key}]
    /\ UNCHANGED <<ID_COUNTER, issued>>

(***************************************************************************)
(* deleteItem: a direct lookup, the ownership test, then the removal.      *)
(***************************************************************************)
\* A faulty variant of delete_result: the ownership test is missing.
delete_result_unchecked(map, c, key) ==
    LET found_item == map_get(map, key)
    IN  IF found_item # {}
        THEN LET fi == CHOOSE v \in found_item : TRUE
             IN  [map |-> map_remove(map, key), ret |-> Ok(DeleteOkText(fi.id))]
        ELSE [map |-> map, ret |-> Err(DeleteNotFoundText)]

delete_result(map, c, key) ==
    LET found_item == map_get(map, key)
    IN  IF found_item # {}
        THEN LET fi == CHOOSE v \in found_item : TRUE
             IN  IF fi.item_owner # c
                 THEN [map |-> map, ret |-> Err(DeleteUnauthorizedText(fi.item_owner))]
                 ELSE [map |-> map_remove(map, key), ret |-> Ok(DeleteOkText(fi.id))]
        ELSE [map |-> map, ret |-> Err(DeleteNotFoundText)]

delete_item(c, key) ==
    /\ call = NoCall
    /\ LET r == delete_result(ITEM_MAP, c, key)
       IN  /\ ITEM_MAP' = r.map
           /\ ret' = r.ret
    /\ call' = [op |-> "deleteItem", caller |-> c, key |-> {key}]
    /\ UNCHANGED <<ID_COUNTER, issued>>

(***************************************************************************)
(* bidForAnItem: a direct lookup, the three tests in the order of the      *)
(* source, then the new bid is pushed and the item written back.           *)
(***************************************************************************)
\* A faulty variant of bid_check: a bid equal to the highest bid passes.
\* A faulty variant of bid_check: a bid on an inactive item passes.
bid_check_inactive_passes(fi, c, bid) ==
    IF fi.item_owner = c THEN {BidSelfText}
    ELSE IF bid.bid_amount <= fi.highest_bid THEN {BidTooLowText}
    ELSE {}

bid_check_equal_passes(fi, c, bid) ==
    IF fi.item_owner = c THEN {BidSelfText}
    ELSE IF ~fi.is_active THEN {BidInactiveText}
    ELSE IF bid.bid_amount < fi.highest_bid THEN {BidTooLowText}
    ELSE {}

\* A faulty variant of bid_check: the owner's own bid passes.
bid_check_owner_passes(fi, c, bid) ==
    IF ~fi.is_active THEN {BidInactiveText}
    ELSE IF bid.bid_amount <= fi.highest_bid THEN {BidTooLowText}
    ELSE {}

\* The error the bid is rejected with, or none.
bid_check(fi, c, bid) ==
    IF fi.item_owner = c THEN {BidSelfText}
    ELSE IF ~fi.is_active THEN {BidInactiveText}
    ELSE IF bid.bid_amount <= fi.highest_bid THEN {BidTooLowText}
    ELSE {}

\* A faulty variant of bid_push: the highest bid is not updated.
bid_push_keeps_highest(fi, c, key, bid) ==
    LET new_bid == [item_id |-> key, bidder_principal |-> c,
                    bid_amount |-> bid.bid_amount, bid_date |-> bid.bid_date]
    IN  [fi EXCEPT !.bid_vector = Append(fi.bid_vector, new_bid)]

\* The item with the accepted bid pushed.
bid_push(fi, c, key, bid) ==
    LET new_bid == [item_id |-> key, bidder_principal |-> c,
                    bid_amount |-> bid.bid_amount, bid_date |-> bid.bid_date]
    IN  [fi EXCEPT !.highest_bid = new_bid.bid_amount,
                   !.bid_vector = Append(fi.bid_vector, new_bid)]

\* A faulty variant of bid_result: the bid is pushed and written before the tests.
bid_result_writes_first(map, c, key, bid) ==
    LET found_item == map_get(map, key)
    IN  IF found_item # {}
        THEN LET fi == CHOOSE v \in found_item : TRUE
                 e  == bid_check(fi, c, bid)
                 m  == map_insert(map, key, bid_push(fi, c, key, bid))
             IN  IF e # {}
                 THEN [map |-> m, ret |-> Err(CHOOSE t \in e : TRUE)]
                 ELSE [map |-> m, ret |-> Ok(BidOkText(fi.id))]
        ELSE [map |-> map, ret |-> Err(BidNotFoundText)]

bid_result(map, c, key, bid) ==
    LET found_item == map_get(map, key)
    IN  IF found_item # {}
        THEN LET fi == CHOOSE v \in found_item : TRUE
                 e  == bid_check(fi, c, bid)
             IN  IF e # {}
                 THEN [map |-> map, ret |-> Err(CHOOSE t \in e : TRUE)]
                 ELSE [map |-> map_insert(map, key, bid_push(fi, c, key, bid)),
                       ret |-> Ok(BidOkText(fi.id))]
        ELSE [map |-> map, ret |-> Err(BidNotFoundText)]

bid_for_an_item(c, key, bid) ==
    /\ call = NoCall
    /\ LET r == bid_result(ITEM_MAP, c, key, bid)
       IN  /\ ITEM_MAP' = r.map
           /\ ret' = r.ret
    /\ call' = [op |-> "bidForAnItem", caller |-> c, key |-> {key}]
    /\ UNCHANGED <<ID_COUNTER, issued>>

(***************************************************************************)
(* The canister after init, and its calls.                                 *)
(***************************************************************************)
\* The reply of the call that has just run is handed to its caller.
deliver_reply ==
    /\ call # NoCall
    /\ call' = NoCall
    /\ ret' = NoRet
    /\ UNCHANGED <<ITEM_MAP, ID_COUNTER, issued>>

Init ==
    /\ ITEM_MAP = EmptyMap
    /\ ID_COUNTER = 0
    /\ call = NoCall
    /\ ret = NoRet
    /\ issued = <<>>

Next ==
    \/ \E c \in Principals, item \in ItemBases : list_item(c, item)
    \/ \E c \in Principals, key \in Keys, item \in ItemBases : edit_item(c, key, item)
    \/ \E c \in Principals, key \in Keys : stop_listing(c, key)
    \/ \E c \in Principals, key \in Keys : delete_item(c, key)
    \/ \E c \in Principals, key \in Keys, bid \in BidBases : bid_for_an_item(c, key, bid)
    \/ deliver_reply

Spec == Init /\ [][Next]_vars

(***************************************************************************)
(* The allocator around the end of the counter's range.  The sum            *)
(* id_tmp + 1 at the largest value of the counter wraps to 0 in a build      *)
(* without overflow checks and panics in a build with them; a panic traps    *)
(* the call, which is then answered with a reject and changes nothing.       *)
(* AllocSpec follows listItem and deleteItem for one round of the counter    *)
(* and one allocation more.                                                  *)
(***************************************************************************)
AllIds == 0..(IdModulus - 1)

MaxAllocs == IdModulus + 1

Trap == [tag |-> "Trap", text |-> "attempt to add with overflow", item |-> {}]

\* listItem without the cap of Spec on the counter.
list_item_wide(c, item) ==
    /\ call = NoCall
    /\ Len(issued) < MaxAllocs
    /\ LET a        == get_and_inc_current_id(ID_COUNTER)
           new_item == new_listing(c, a.id_tmp, item)
       IN  /\ ID_COUNTER' = a.next
           /\ ITEM_MAP' = map_insert(ITEM_MAP, a.id_tmp, new_item)
           /\ ret' = OptionItem(map_get(ITEM_MAP, a.id_tmp))
           /\ issued' = Append(issued, a.id_tmp)
    /\ call' = [op |-> "listItem", caller |-> c, key |-> {}]

\* listItem at the largest counter value in a build with overflow checks.
list_item_overflow_trap(c, item) ==
    /\ call = NoCall
    /\ ID_COUNTER + 1 = IdModulus
    /\ call' = [op |-> "listItem", caller |-> c, key |-> {}]
    /\ ret' = Trap
    /\ UNCHANGED <<ITEM_MAP, ID_COUNTER, issued>>

AllocNext ==
    \/ \E c \in Principals, item \in ItemBases : list_item_wide(c, item)
    \/ \E c \in Principals, item \in ItemBases : list_item_overflow_trap(c, item)
    \/ \E c \in Principals, key \in AllIds : delete_item(c, key)
    \/ deliver_reply

AllocSpec == Init /\ [][AllocNext]_vars

(***************************************************************************)
(* Properties.                                                             *)
(***************************************************************************)
Stored(key) == key \in DOMAIN ITEM_MAP

\* C1: bidForAnItem succeeds exactly when the item exists, the caller is not
\* its owner, the item is active and the amount is strictly greater than the
\* highest bid before the call; otherwise the error is the first that applies
\* in the order not found, self bid, inactive, bid too low.
C1_BidOutcome ==
    [][\A c \in Principals, key \in Keys, bid \in BidBases :
          bid_for_an_item(c, key, bid) =>
             /\ ret'.tag = "Ok" <=>
                   /\ Stored(key)
                   /\ ITEM_MAP[key].item_owner # c
                   /\ ITEM_MAP[key].is_active
                   /\ bid.bid_amount > ITEM_MAP[key].highest_bid
             /\ ret'.tag \in {"Ok", "Err"}
             /\ ~Stored(key) => ret' = Err(BidNotFoundText)
             /\ Stored(key) /\ ITEM_MAP[key].item_owner = c => ret' = Err(BidSelfText)
             /\ Stored(key) /\ ITEM_MAP[key].item_owner # c /\ ~ITEM_MAP[key].is_active
                   => ret' = Err(BidInactiveText)
             /\ Stored(key) /\ ITEM_MAP[key].item_owner # c /\ ITEM_MAP[key].is_active
                   /\ bid.bid_amount <= ITEM_MAP[key].highest_bid
                   => ret' = Err(BidTooLowText)
             /\ Cardinality({BidNotFoundText, BidSelfText,
                             BidInactiveText, BidTooLowText}) = 4]_vars

\* The owner has just bid on their own inactive item and was told it is a self bid.
C1_Witness ==
    /\ call.op = "bidForAnItem"
    /\ ret = Err(BidSelfText)
    /\ \E key \in call.key :
          /\ Stored(key)
          /\ ITEM_MAP[key].item_owner = call.caller
          /\ ~ITEM_MAP[key].is_active

\* C2: the ids allocated by successive listItem calls are strictly increasing,
\* so none is allocated twice, also when items were deleted in between; every
\* stored item carries an allocated id.
C2_IdsStrictlyIncreasing ==
    /\ \A i, j \in DOMAIN issued : i < j => issued[i] < issued[j]
    /\ \A key \in DOMAIN ITEM_MAP :
          \E i \in DOMAIN issued : issued[i] = ITEM_MAP[key].id

\* A second listItem has just run after the first item was deleted.
C2_Witness ==
    /\ call.op = "listItem"
    /\ Len(issued) >= 2
    /\ ~Stored(issued[1])
    /\ Stored(issued[Len(issued)])

\* C3: listItem returns the item it has just stored under the fresh id.
C3_ListReturnsCreatedItem ==
    call.op = "listItem" =>
       /\ ret.tag = "Some"
       /\ Stored(ID_COUNTER - 1)
       /\ ret.item = {ITEM_MAP[ID_COUNTER - 1]}

\* C4: editItem by a caller who is not the owner of an existing item yields a
\* result different from the one editItem yields for an id that is not stored.
\* (A rejected editItem leaves the map alone, so the key of a rejected call
\* that is still stored was stored when the call was made.)
C4_EditErrorsDistinct ==
    (/\ call.op = "editItem"
     /\ ret.tag = "Err"
     /\ \E key \in call.key : Stored(key) /\ ITEM_MAP[key].item_owner # call.caller)
    => ret # Err(EditNotFoundText)

\* C5: editItem and stopListing by a caller who is not the owner of an existing
\* item return an error and leave the stored item as it was.
C5_NonOwnerEditStopNoChange ==
    [][\A c \in Principals, key \in Keys :
          (/\ Stored(key)
           /\ ITEM_MAP[key].item_owner # c
           /\ \/ stop_listing(c, key)
              \/ \E new_item \in ItemBases : edit_item(c, key, new_item))
          => /\ ret'.tag = "Err"
             /\ key \in DOMAIN ITEM_MAP'
             /\ ITEM_MAP'[key] = ITEM_MAP[key]]_vars

\* A caller who is not the owner has just been refused stopping an active item.
C5_Witness ==
    /\ call.op = "stopListing"
    /\ ret.tag = "Err"
    /\ \E key \in call.key :
          /\ Stored(key)
          /\ ITEM_MAP[key].item_owner # call.caller
          /\ ITEM_MAP[key].is_active

\* C6: deleteItem by the owner removes the item, so that getItem returns None
\* right after; by another caller it is refused as unauthorized and the item
\* stays as it was; on an id that is not stored it reports that it is not found.
C6_DeleteOutcome ==
    [][\A c \in Principals, key \in Keys :
          delete_item(c, key) =>
             /\ Stored(key) /\ ITEM_MAP[key].item_owner = c
                   => /\ ret'.tag = "Ok"
                      /\ map_get(ITEM_MAP', key) = {}
             /\ Stored(key) /\ ITEM_MAP[key].item_owner # c
                   => /\ ret' = Err(DeleteUnauthorizedText(ITEM_MAP[key].item_owner))
                      /\ map_get(ITEM_MAP', key) = {ITEM_MAP[key]}
             /\ ~Stored(key)
                   => /\ ret' = Err(DeleteNotFoundText)
                      /\ ITEM_MAP' = ITEM_MAP
             /\ \A owner \in Principals :
                   DeleteUnauthorizedText(owner) # DeleteNotFoundText]_vars

\* The owner has just deleted an item, and another item is still stored.
C6_Witness ==
    /\ call.op = "deleteItem"
    /\ ret.tag = "Ok"
    /\ \E key \in call.key : get_item(key) = {}
    /\ DOMAIN ITEM_MAP # {}

\* C7: a successful bid sets highest_bid to the amount and pushes exactly one
\* Bid, made of the key, the caller, the amount and the date, at the end of the
\* history; the earlier entries and the other fields of the item stay.
C7_BidEffect ==
    [][\A c \in Principals, key \in Keys, bid \in BidBases :
          bid_for_an_item(c, key, bid) /\ ret'.tag = "Ok" =>
             /\ Stored(key) /\ key \in DOMAIN ITEM_MAP'
             /\ LET old == ITEM_MAP[key]
                    new == ITEM_MAP'[key]
                IN  /\ new.highest_bid = bid.bid_amount
                    /\ Len(new.bid_vector) = Len(old.bid_vector) + 1
                    /\ SubSeq(new.bid_vector, 1, Len(old.bid_vector)) = old.bid_vector
                    /\ new.bid_vector[Len(new.bid_vector)] =
                          [item_id |-> key, bidder_principal |-> c,
                           bid_amount |-> bid.bid_amount, bid_date |-> bid.bid_date]
                    /\ new.item_owner = old.item_owner
                    /\ new.id = old.id
                    /\ new.description = old.description
                    /\ new.result_date = old.result_date
                    /\ new.is_active = old.is_active
                    /\ new.latest_update = old.latest_update]_vars

\* A bid has just been accepted on an item that already had one.
C7_Witness ==
    /\ call.op = "bidForAnItem"
    /\ ret.tag = "Ok"
    /\ \E key \in call.key :
          /\ Stored(key)
          /\ Len(ITEM_MAP[key].bid_vector) = 2
          /\ ITEM_MAP[key].bid_vector[2].bidder_principal = call.caller

\* C8: highest_bid of every stored item is the amount of the last bid of its
\* history, and 0 when the history is empty.
C8_HighestBidIsLastBid ==
    \A key \in DOMAIN ITEM_MAP :
       LET v == ITEM_MAP[key]
       IN  IF v.bid_vector = <<>>
           THEN v.highest_bid = 0
           ELSE v.highest_bid = v.bid_vector[Len(v.bid_vector)].bid_amount

\* An item with two bids has been edited by its owner.
C8_Witness ==
    /\ call.op = "editItem"
    /\ ret.tag = "Ok"
    /\ \E key \in call.key :
          /\ Stored(key)
          /\ Len(ITEM_MAP[key].bid_vector) = 2
          /\ ITEM_MAP[key].highest_bid = 150

\* C9: the amounts of every stored item's history are strictly increasing in
\* the order of the history, and the first is greater than 0.
C9_AmountsStrictlyIncreasing ==
    \A key \in DOMAIN ITEM_MAP :
       LET h == ITEM_MAP[key].bid_vector
       IN  /\ h # <<>> => h[1].bid_amount > 0
           /\ \A i \in 1..(Len(h) - 1) : h[i].bid_amount < h[i + 1].bid_amount

\* An item holds two bids and has been stopped.
C9_Witness ==
    \E key \in DOMAIN ITEM_MAP :
       /\ Len(ITEM_MAP[key].bid_vector) = 2
       /\ ~ITEM_MAP[key].is_active
       /\ call.op = "stopListing"
       /\ call.key = {key}

\* C10: no bid in a stored item's history was placed by the item's owner.
C10_NoBidByOwner ==
    \A key \in DOMAIN ITEM_MAP :
       \A i \in DOMAIN ITEM_MAP[key].bid_vector :
          ITEM_MAP[key].bid_vector[i].bidder_principal # ITEM_MAP[key].item_owner

\* Two items of different owners each hold a bid.
C10_Witness ==
    \E k1, k2 \in DOMAIN ITEM_MAP :
       /\ ITEM_MAP[k1].item_owner # ITEM_MAP[k2].item_owner
       /\ ITEM_MAP[k1].bid_vector # <<>>
       /\ ITEM_MAP[k2].bid_vector # <<>>

\* C11: every listItem stores, under the id it allocates, an item owned by the
\* caller with that id, highest_bid 0, an empty history and the description,
\* result_date, is_active and latest_update it was given.
C11_ListStoresNewItem ==
    [][\A c \in Principals, item \in ItemBases :
          list_item(c, item) =>
             /\ ~Stored(ID_COUNTER)
             /\ DOMAIN ITEM_MAP' = DOMAIN ITEM_MAP \cup {ID_COUNTER}
             /\ ITEM_MAP'[ID_COUNTER] =
                   [ item_owner    |-> c,
                     id            |-> ID_COUNTER,
                     description   |-> item.description,
                     highest_bid   |-> 0,
                     latest_update |-> item.latest_update,
                     result_date   |-> item.result_date,
                     bid_vector    |-> <<>>,
                     is_active     |-> item.is_active ]]_vars

\* A second item has just been listed, and it was created inactive.
C11_Witness ==
    /\ call.op = "listItem"
    /\ ID_COUNTER = 2
    /\ Stored(1)
    /\ ITEM_MAP[1].item_owner = call.caller
    /\ ~ITEM_MAP[1].is_active
    /\ ITEM_MAP[1].bid_vector = <<>>

\* C12: editItem by the owner of a stored item succeeds and sets description,
\* result_date, is_active and latest_update to the values given; the owner,
\* the id, highest_bid and the history stay.
C12_OwnerEditEffect ==
    [][\A c \in Principals, key \in Keys, new_item \in ItemBases :
          (edit_item(c, key, new_item) /\ Stored(key) /\ ITEM_MAP[key].item_owner = c)
          => /\ ret' = Ok(EditOkText)
             /\ key \in DOMAIN ITEM_MAP'
             /\ LET old == ITEM_MAP[key]
                    new == ITEM_MAP'[key]
                IN  /\ new.description = new_item.description
                    /\ new.result_date = new_item.result_date
                    /\ new.is_active = new_item.is_active
                    /\ new.latest_update = new_item.latest_update
                    /\ new.item_owner = old.item_owner
                    /\ new.id = old.id
                    /\ new.highest_bid = old.highest_bid
                    /\ new.bid_vector = old.bid_vector]_vars

\* The owner has just edited an item that holds two bids; the edit gave it the
\* description "y", which no listing with a bid had before the edit.
C12_Witness ==
    /\ call.op = "editItem"
    /\ ret = Ok(EditOkText)
    /\ \E key \in call.key :
          /\ Stored(key)
          /\ ITEM_MAP[key].item_owner = call.caller
          /\ ITEM_MAP[key].description = "y"
          /\ ITEM_MAP[key].result_date = 20
          /\ Len(ITEM_MAP[key].bid_vector) = 2

\* C13: stopListing by the owner of a stored item succeeds, sets is_active to
\* FALSE and changes nothing else of the item; on an item that is already
\* inactive it succeeds and leaves the whole map and the counter as they were.
C13_OwnerStopEffect ==
    [][\A c \in Principals, key \in Keys :
          (stop_listing(c, key) /\ Stored(key) /\ ITEM_MAP[key].item_owner = c)
          => /\ ret' = Ok(StopOkText)
             /\ key \in DOMAIN ITEM_MAP'
             /\ ITEM_MAP'[key] = [ITEM_MAP[key] EXCEPT !.is_active = FALSE]
             /\ ~ITEM_MAP[key].is_active
                   => ITEM_MAP' = ITEM_MAP /\ ID_COUNTER' = ID_COUNTER]_vars

\* The owner has just stopped an item with the description "y": only an edit
\* gives that description, together with is_active FALSE, so the item was
\* inactive already.
C13_Witness ==
    /\ call.op = "stopListing"
    /\ ret = Ok(StopOkText)
    /\ \E key \in call.key :
          /\ Stored(key)
          /\ ITEM_MAP[key].item_owner = call.caller
          /\ ITEM_MAP[key].description = "y"
          /\ ~ITEM_MAP[key].is_active

Allocated == {issued[i] : i \in DOMAIN issued}

\* C14: while a stored item is inactive no step changes its history or its
\* highest_bid; the only step that makes it active again is a successful
\* editItem on it by its owner, and right after that step a bid on it by
\* another caller above its highest_bid is accepted.
C14_InactiveUntilOwnerEdit ==
    [][\A key \in DOMAIN ITEM_MAP :
          (~ITEM_MAP[key].is_active /\ key \in DOMAIN ITEM_MAP')
          => /\ ITEM_MAP'[key].bid_vector = ITEM_MAP[key].bid_vector
             /\ ITEM_MAP'[key].highest_bid = ITEM_MAP[key].highest_bid
             /\ ITEM_MAP'[key].is_active
                   => /\ call' = [op |-> "editItem",
                                  caller |-> ITEM_MAP[key].item_owner, key |-> {key}]
                      /\ ret' = Ok(EditOkText)
                      /\ \A c \in Principals, bid \in BidBases :
                            (/\ c # ITEM_MAP'[key].item_owner
                             /\ bid.bid_amount > ITEM_MAP'[key].highest_bid)
                            => bid_result(ITEM_MAP', c, key, bid).ret.tag = "Ok"]_vars

\* A caller who is not the owner has just bid above the highest bid on an
\* inactive item that holds a bid, and was refused.
C14_Witness ==
    /\ call.op = "bidForAnItem"
    /\ ret = Err(BidInactiveText)
    /\ \E key \in call.key :
          /\ Stored(key)
          /\ ~ITEM_MAP[key].is_active
          /\ ITEM_MAP[key].highest_bid = 100
          /\ Len(ITEM_MAP[key].bid_vector) = 1

\* C15: an id that was allocated and is not stored (its item was deleted) is
\* not stored after any step.
C15_DeletedStaysAbsent ==
    [][\A key \in Allocated : ~Stored(key) => key \notin DOMAIN ITEM_MAP']_vars

\* An editItem addressed to the id of a deleted item has just been refused,
\* after a later item was listed.
C15_Witness ==
    /\ call.op = "editItem"
    /\ ret.tag = "Err"
    /\ \E key \in call.key : key \in Allocated /\ ~Stored(key) /\ Stored(key + 1)

\* C16: a refused bidForAnItem, and an editItem, stopListing or deleteItem
\* refused for an id that is not stored, leave the map and the counter as they
\* were, and the same call made again gets the same reply.
C16_RejectedCallNoEffect ==
    [][\A c \in Principals, key \in Keys :
          /\ \A bid \in BidBases :
                (bid_for_an_item(c, key, bid) /\ ret'.tag = "Err")
                => /\ ITEM_MAP' = ITEM_MAP /\ ID_COUNTER' = ID_COUNTER
                   /\ bid_result(ITEM_MAP', c, key, bid).ret = ret'
          /\ \A new_item \in ItemBases :
                (edit_item(c, key, new_item) /\ ~Stored(key))
                => /\ ret'.tag = "Err"
                   /\ ITEM_MAP' = ITEM_MAP /\ ID_COUNTER' = ID_COUNTER
                   /\ edit_commit(ITEM_MAP', key,
                         edit_scan(ITEM_MAP', DOMAIN ITEM_MAP', c, key, new_item)).ret = ret'
          /\ (stop_listing(c, key) /\ ~Stored(key))
                => /\ ret'.tag = "Err"
                   /\ ITEM_MAP' = ITEM_MAP /\ ID_COUNTER' = ID_COUNTER
                   /\ stop_commit(ITEM_MAP', key,
                         stop_scan(ITEM_MAP', DOMAIN ITEM_MAP', c, key)).ret = ret'
          /\ (delete_item(c, key) /\ ~Stored(key))
                => /\ ret'.tag = "Err"
                   /\ ITEM_MAP' = ITEM_MAP /\ ID_COUNTER' = ID_COUNTER
                   /\ delete_result(ITEM_MAP', c, key).ret = ret']_vars

\* A bid that is not above the highest bid of an active item holding two bids
\* has just been refused.
C16_Witness ==
    /\ call.op = "bidForAnItem"
    /\ ret = Err(BidTooLowText)
    /\ \E key \in call.key :
          /\ Stored(key)
          /\ ITEM_MAP[key].is_active
          /\ Len(ITEM_MAP[key].bid_vector) = 2

\* C17: every step leaves the items under the keys it is not addressed to as
\* they were; only listItem changes the counter; the set of keys grows only in
\* a listItem step, by the id it allocates, and shrinks only in a successful
\* deleteItem step, by the key it is addressed to.
C17_OneItemPerCall ==
    [][/\ \A key \in DOMAIN ITEM_MAP :
             key \notin call'.key
             => key \in DOMAIN ITEM_MAP' /\ ITEM_MAP'[key] = ITEM_MAP[key]
       /\ ID_COUNTER' # ID_COUNTER => call'.op = "listItem"
       /\ DOMAIN ITEM_MAP' \ DOMAIN ITEM_MAP # {}
             => /\ call'.op = "listItem"
                /\ DOMAIN ITEM_MAP' \ DOMAIN ITEM_MAP = {ID_COUNTER}
       /\ DOMAIN ITEM_MAP \ DOMAIN ITEM_MAP' # {}
             => /\ call'.op = "deleteItem"
                /\ ret'.tag = "Ok"
                /\ DOMAIN ITEM_MAP \ DOMAIN ITEM_MAP' = call'.key]_vars

\* An item has just been deleted while another item, which holds a bid, is stored.
C17_Witness ==
    /\ call.op = "deleteItem"
    /\ ret.tag = "Ok"
    /\ \E key \in call.key : ~Stored(key)
    /\ \E other \in DOMAIN ITEM_MAP : ITEM_MAP[other].bid_vector # <<>>

\* C18: the allocator returns the value the counter held and leaves the
\* counter at that value plus one (in the arithmetic of the counter's width),
\* and it never returns a value it has returned before, the allocation at the
\* largest counter value included.
C18_AllocatorNeverRepeats ==
    /\ [](\A i, j \in DOMAIN issued : i # j => issued[i] # issued[j])
    /\ [][issued' # issued =>
             /\ issued' = Append(issued, ID_COUNTER)
             /\ ID_COUNTER' = (ID_COUNTER + 1) % IdModulus]_vars

\* C19: every stored item has the id it is stored under, every bid of its
\* history names that id, and the id is below the counter; an item is created
\* with the caller of its listItem as owner, under a key that was not stored,
\* and no step changes the owner of a stored item.
C19_IdAndOwnerFixed ==
    /\ [](\A key \in DOMAIN ITEM_MAP :
             /\ ITEM_MAP[key].id = key
             /\ key < ID_COUNTER
             /\ \A i \in DOMAIN ITEM_MAP[key].bid_vector :
                   ITEM_MAP[key].bid_vector[i].item_id = key)
    /\ [][\A key \in DOMAIN ITEM_MAP' :
             IF Stored(key)
             THEN ITEM_MAP'[key].item_owner = ITEM_MAP[key].item_owner
             ELSE /\ call'.op = "listItem"
                  /\ ITEM_MAP'[key].item_owner = call'.caller]_vars

\* The second item listed holds two bids, and its owner has edited it.
C19_Witness ==
    /\ call.op = "editItem"
    /\ ret = Ok(EditOkText)
    /\ call.key = {1}
    /\ Stored(1)
    /\ Len(ITEM_MAP[1].bid_vector) = 2
    /\ ITEM_MAP[1].bid_vector[2].item_id = 1

\* C20: in every step in which the description, result_date, is_active or
\* latest_update of a stored item changes, or the item is removed, the caller
\* is the item's owner; a step by another caller changes a stored item only
\* as a successful bid, in highest_bid and the history.
C20_OnlyOwnerChangesListing ==
    [][\A key \in DOMAIN ITEM_MAP :
          LET old == ITEM_MAP[key]
              listing(v) == <<v.description, v.result_date, v.is_active, v.latest_update>>
          IN  /\ key \notin DOMAIN ITEM_MAP' => call'.caller = old.item_owner
              /\ key \in DOMAIN ITEM_MAP' =>
                    LET new == ITEM_MAP'[key]
                    IN  /\ listing(new) # listing(old) => call'.caller = old.item_owner
                        /\ (new # old /\ call'.caller # old.item_owner)
                              => /\ call' = [op |-> "bidForAnItem",
                                             caller |-> call'.caller, key |-> {key}]
                                 /\ ret'.tag = "Ok"
                                 /\ [new EXCEPT !.highest_bid = old.highest_bid,
                                                !.bid_vector = old.bid_vector] = old]_vars

\* A caller who is not the owner of an item, and owns another stored item,
\* has just placed the second bid on it.
C20_Witness ==
    /\ call.op = "bidForAnItem"
    /\ ret.tag = "Ok"
    /\ \E key \in call.key :
          /\ Stored(key)
          /\ call.caller # ITEM_MAP[key].item_owner
          /\ Len(ITEM_MAP[key].bid_vector) = 2
          /\ \E other \in DOMAIN ITEM_MAP :
                other # key /\ ITEM_MAP[other].item_owner = call.caller

====
